---- MODULE Spec2Model ----
(***************************************************************************)
(* Model of frscraper.py: the Federal Register scraper's main() loop over  *)
(* configured agencies, listing pages and documents, against an object     *)
(* store (MinIO) that holds the PDF artifacts and the abstracts.json index.*)
(*                                                                         *)
(* Strings are sequences of string chunks (mostly single characters), so   *)
(* that lower(), slicing, replace() and sorting act on them as in Python.  *)
(***************************************************************************)
EXTENDS Integers, Sequences, FiniteSets, TLC

(***************************************************************************)
(* Bounds of the model.                                                    *)
(***************************************************************************)
\* failures in one behaviour: catalog URLs that answer with a non-200
\* status, storage calls that raise, and kills of the process
MaxFaults == 1
\* PDF objects in the store before the first run
MaxStored == 1

\* longest title of a document record in the specification of the path
MaxTitleLen == 32

(***************************************************************************)
(* Python values.                                                          *)
(***************************************************************************)
\* None
Null == <<"<None>">>
\* a key that the dict does not hold
Missing == <<"<missing>">>

\* dict.get(key, default)
Get(d, key, default) == IF d[key] = Missing THEN default ELSE d[key]

\* truthiness of an optional string: None and "" are falsy
Truthy(s) == s # Null /\ s # Missing /\ s # <<>>

UpperSeq == <<"A","B","C","D","E","F","G","H","I","J","K","L","M",
              "N","O","P","Q","R","S","T","U","V","W","X","Y","Z">>
LowerSeq == <<"a","b","c","d","e","f","g","h","i","j","k","l","m",
              "n","o","p","q","r","s","t","u","v","w","x","y","z">>

\* str.lower() on one character
LowerChar(c) ==
    IF \E i \in DOMAIN UpperSeq : UpperSeq[i] = c
    THEN LowerSeq[CHOOSE i \in DOMAIN UpperSeq : UpperSeq[i] = c]
    ELSE c

\* str.lower()
Lower(s) == [i \in DOMAIN s |-> LowerChar(s[i])]

\* ord() of a letter: upper case sorts before lower case
Ord(c) ==
    IF \E i \in DOMAIN UpperSeq : UpperSeq[i] = c
    THEN 64 + (CHOOSE i \in DOMAIN UpperSeq : UpperSeq[i] = c)
    ELSE IF \E i \in DOMAIN LowerSeq : LowerSeq[i] = c
         THEN 96 + (CHOOSE i \in DOMAIN LowerSeq : LowerSeq[i] = c)
         ELSE 32

\* s < t on Python strings (lexicographic by code point)
RECURSIVE StrLess(_, _)
StrLess(s, t) ==
    IF t = <<>> THEN FALSE
    ELSE IF s = <<>> THEN TRUE
    ELSE IF Ord(Head(s)) # Ord(Head(t)) THEN Ord(Head(s)) < Ord(Head(t))
    ELSE StrLess(Tail(s), Tail(t))

(***************************************************************************)
(* Configuration (config.yaml) and the catalog the Federal Register API    *)
(* serves in this model.                                                   *)
(***************************************************************************)
parent_folder == <<"f","r">>

\* config["agencies"]: the second keyword matches no agency
agencies_to_scrape == << <<"f","t","c">>, <<"X","Y","Z">>, <<"e","p","a">> >>

\* the agencies endpoint, in the order it returns them; the first one has no
\* short name and a name that differs from "FTC" by case only
ApiAgencies ==
    << [name |-> <<"f","t","c">>, short_name |-> Null,
        recent_articles_url |-> <<"alt/p1">>],
       [name |-> <<"E","n","v">>, short_name |-> <<"E","P","A">>,
        recent_articles_url |-> <<"epa/p1">>],
       [name |-> <<"F","e","d">>, short_name |-> <<"F","T","C">>,
        recent_articles_url |-> <<"ftc/p1">>] >>

\* title[:30] keeps this many characters
TitleLimit == 30

\* a title of TitleLimit + 1 characters
LongTitle == [i \in 1..(TitleLimit + 1) |-> IF i = TitleLimit + 1 THEN "z" ELSE "x"]

Doc(dn, title, url, abstract, date) ==
    [document_number |-> dn, title |-> title, pdf_url |-> url,
     abstract |-> abstract, publication_date |-> date]

D1 == Doc(<<"d","1">>, LongTitle, <<"pdf/d1">>, <<"abs1">>, <<"2024-01-01">>)
D2 == Doc(<<"d","2">>, <<"J","o","i","n","t">>, <<"pdf/d2">>, <<"abs2">>, <<"2024-01-02">>)
D3 == Doc(<<"d","3">>, <<"R","u","l","e">>, <<"pdf/d3">>, Null, <<"2024-01-03">>)
D4 == Doc(<<"d","4">>, <<"N","o","P","d","f">>, Null, <<"abs4">>, <<"2024-01-04">>)
D5 == Doc(<<"d","5">>, <<"A","/","B">>, <<"pdf/d5">>, <<"abs5">>, Missing)
D6 == Doc(<<"d","6">>, Missing, <<"pdf/d6">>, Missing, <<"2024-01-06">>)

\* the listing pages by URL; D2 is listed under both agencies
PageUrls == { <<"ftc/p1">>, <<"ftc/p2">>, <<"epa/p1">>, <<"epa/p2">> }

PageData(url) ==
    CASE url = <<"ftc/p1">> -> [results |-> <<D1, D2>>, next_page_url |-> <<"ftc/p2">>]
      [] url = <<"ftc/p2">> -> [results |-> <<D3>>, next_page_url |-> Null]
      [] url = <<"epa/p1">> -> [results |-> <<D4, D2, D5>>, next_page_url |-> <<"epa/p2">>]
      [] url = <<"epa/p2">> -> [results |-> <<D6>>, next_page_url |-> Missing]
      [] OTHER -> [results |-> <<>>, next_page_url |-> Missing]

PdfUrls == { <<"pdf/d1">>, <<"pdf/d2">>, <<"pdf/d3">>, <<"pdf/d5">>, <<"pdf/d6">> }

(***************************************************************************)
(* Pure helpers of main().                                                 *)
(***************************************************************************)
\* a['short_name'] if a['short_name'] else a['name']
ShortNameOrName(a) == IF Truthy(a.short_name) THEN a.short_name ELSE a.name

\* list.sort(key=...): stable insertion of x into the sorted list s
RECURSIVE InsertSorted(_, _)
InsertSorted(s, x) ==
    IF s = <<>> THEN <<x>>
    ELSE IF StrLess(ShortNameOrName(x), ShortNameOrName(Head(s)))
         THEN <<x>> \o s
         ELSE <<Head(s)>> \o InsertSorted(Tail(s), x)

\* the sort missing: the list stays in the order the API returned it
Unsorted(s) == s

RECURSIVE SortAgencies(_)
SortAgencies(s) ==
    IF s = <<>> THEN <<>>
    ELSE InsertSorted(SortAgencies(SubSeq(s, 1, Len(s) - 1)), s[Len(s)])

\* the first agency of the list whose short name or name equals the keyword,
\* ignoring case; Null when there is none
MatchAgency(agencies, keyword) ==
    LET hits == { i \in DOMAIN agencies :
                    Lower(ShortNameOrName(agencies[i])) = Lower(keyword) }
    IN  IF hits = {} THEN Null
        ELSE agencies[CHOOSE i \in hits : \A j \in hits : i <= j]

\* the comparison off by one: a title of exactly 30 characters is cut too
TruncateFromLimit(title) ==
    IF Len(title) >= TitleLimit
    THEN SubSeq(title, 1, TitleLimit) \o <<".", ".", ".">>
    ELSE title

\* title[:30] + "..." if len(title) > 30 else title
TruncatedTitle(title) ==
    IF Len(title) > TitleLimit
    THEN SubSeq(title, 1, TitleLimit) \o <<".", ".", ".">>
    ELSE title

\* str.replace('/', '_')
ReplaceSlash(s) == [i \in DOMAIN s |-> IF s[i] = "/" THEN "_" ELSE s[i]]

\* f"{document_number} - {truncated_title}.pdf".replace('/', '_')
PdfFilename(document_number, title) ==
    ReplaceSlash(document_number \o <<" ", "-", " ">> \o TruncatedTitle(title)
                 \o <<".", "p", "d", "f">>)

\* f"{parent_folder}/{short_name}/{pdf_filename}"
PdfObjectPath(short_name, document_number, title) ==
    parent_folder \o <<"/">> \o short_name \o <<"/">>
    \o PdfFilename(document_number, title)

Untitled == <<"Untitled">>
NoAbstract == <<"No abstract available.">>
UnknownDate == <<"Unknown">>

\* result.get('title', 'Untitled')
TitleOf(result) == Get(result, "title", Untitled)

\* the object path of a listed document under an agency's short name
PathOf(short_name, result) ==
    PdfObjectPath(short_name, result.document_number, TitleOf(result))

\* the dict main() merges into a document's index entry
NewEntry(result, agency_name, pdf_object_path) ==
    [abstract |-> Get(result, "abstract", NoAbstract),
     title |-> TitleOf(result),
     publication_date |-> Get(result, "publication_date", UnknownDate),
     agency_name |-> agency_name,
     pdf_path |-> pdf_object_path]

\* the merge turned round: the values already in the entry win
DictKeepFirst(old, new) ==
    [k \in (DOMAIN old) \cup (DOMAIN new) |->
        IF k \in DOMAIN old THEN old[k] ELSE new[k]]

\* the entry replaced by the new dict instead of updated with it
DictReplace(old, new) == new

\* dict.update(): the keys of new take new's values, the others keep old's
DictUpdate(old, new) ==
    [k \in (DOMAIN old) \cup (DOMAIN new) |->
        IF k \in DOMAIN new THEN new[k] ELSE old[k]]

\* existing_abstracts.get(document_number, {})
EntryOf(abstracts, document_number) ==
    IF document_number \in DOMAIN abstracts
    THEN abstracts[document_number]
    ELSE [k \in {} |-> Null]

\* existing_abstracts[document_number] = entry
DictSet(abstracts, document_number, entry) ==
    [d \in (DOMAIN abstracts) \cup {document_number} |->
        IF d = document_number THEN entry ELSE abstracts[d]]

(***************************************************************************)
(* The inputs a behaviour starts from.                                     *)
(***************************************************************************)
EmptyDict == [k \in {} |-> Null]

\* the page URLs main() follows from url, in order
RECURSIVE Chain(_)
Chain(url) ==
    IF ~Truthy(url) THEN <<>>
    ELSE <<url>> \o Chain(Get(PageData(url), "next_page_url", Null))

\* the listed documents of a page that have a PDF URL
WithPdf(url) ==
    { PageData(url).results[i] : i \in { j \in DOMAIN PageData(url).results :
          Truthy(Get(PageData(url).results[j], "pdf_url", Null)) } }

\* every object path a listed document with a PDF URL maps to
AllPaths ==
    UNION { LET chain == Chain(ApiAgencies[a].recent_articles_url)
            IN  UNION { { PathOf(ShortNameOrName(ApiAgencies[a]), r) :
                            r \in WithPdf(chain[p]) } : p \in DOMAIN chain } :
            a \in DOMAIN ApiAgencies }

\* an index written by an earlier version of the catalog: d3 was stored
\* under an older title and carries a field this job does not write, d9 is
\* no longer listed
PriorIndex ==
    DictSet(DictSet(EmptyDict, <<"d","3">>,
                [abstract |-> <<"abs3">>, title |-> <<"O","l","d">>,
                 publication_date |-> <<"2023-12-31">>,
                 agency_name |-> <<"F","e","d">>,
                 pdf_path |-> PdfObjectPath(<<"F","T","C">>, <<"d","3">>, <<"O","l","d">>),
                 note |-> <<"kept">>]),
            <<"d","9">>,
                [abstract |-> <<"abs9">>, title |-> <<"G","o","n","e">>,
                 publication_date |-> <<"2023-01-09">>,
                 agency_name |-> <<"E","n","v">>,
                 pdf_path |-> PdfObjectPath(<<"E","P","A">>, <<"d","9">>, <<"G","o","n","e">>)])

NoAgency == [name |-> Null, short_name |-> Null, recent_articles_url |-> Null]

\* before the first run there is no previous run
NoPrev ==
    [all |-> FALSE, outcome |-> "none", served |-> TRUE, truthful |-> TRUE,
     docsOnce |-> TRUE, got |-> {}, put |-> {}]

(***************************************************************************)
(* State.                                                                  *)
(***************************************************************************)
VARIABLES
    all,                  \* args.all: full-rescan mode
    pc,                   \* where main() stands
    store,                \* object store: the paths that hold a PDF
    indexObj,             \* object store: abstracts.json, [present, data]
    badUrls,              \* catalog: the URLs that answer non-200
    existing_abstracts,   \* the in-memory index
    all_fr_agencies,      \* the sorted agency list
    kw,                   \* position in agencies_to_scrape
    matched_agency,
    next_page_url,
    page_number,
    results,              \* data['results'] of the page being processed
    di,                   \* position in results
    skip_to_next_agency,
    faults,               \* failures so far, the non-200 URLs included
    prev,                 \* history: what the previous run did
    index0,               \* history: indexObj when this run started
    store0,               \* history: store when this run started
    log                   \* history: the calls of this run, in order

vars == << all, pc, store, indexObj, badUrls, existing_abstracts,
           all_fr_agencies, kw, matched_agency, next_page_url, page_number,
           results, di, skip_to_next_agency, faults, prev, index0, store0, log >>

env == << store, indexObj, badUrls >>
hist0 == << prev, index0, store0 >>
loopVars == << kw, matched_agency, next_page_url, page_number, results, di,
               skip_to_next_agency >>

\* one logged call of this run: op is the call, made for the document at
\* position idx of page number page of keyword kw (ok: it succeeded; fault:
\* it failed by an injected storage fault or kill)
Ev(op, ok, fault) ==
    [op |-> op, kw |-> kw, page |-> page_number, idx |-> di,
     ok |-> ok, fault |-> fault]

Logged(op, ok, fault) == log' = Append(log, Ev(op, ok, fault))

short_name == ShortNameOrName(matched_agency)
agency_name == matched_agency.name

Init ==
    /\ all \in BOOLEAN
    /\ pc = "load"
    /\ store \in { s \in SUBSET AllPaths : Cardinality(s) <= MaxStored }
    /\ indexObj \in { [present |-> FALSE, data |-> EmptyDict],
                      [present |-> TRUE, data |-> PriorIndex] }
    /\ badUrls \in { b \in SUBSET (PageUrls \cup PdfUrls) : Cardinality(b) <= MaxFaults }
    /\ existing_abstracts = EmptyDict
    /\ all_fr_agencies = <<>>
    /\ kw = 0
    /\ matched_agency = NoAgency
    /\ next_page_url = Null
    /\ page_number = 0
    /\ results = <<>>
    /\ di = 0
    /\ skip_to_next_agency = FALSE
    /\ faults = Cardinality(badUrls)
    /\ prev = NoPrev
    /\ index0 = indexObj
    /\ store0 = store
    /\ log = <<>>

(***************************************************************************)
(* load_existing_abstracts and the agency list (lines 99-112).             *)
(***************************************************************************)
\* get_object succeeds and the JSON is parsed
LoadExisting ==
    /\ pc = "load"
    /\ indexObj.present
    /\ existing_abstracts' = indexObj.data
    /\ Logged("load", TRUE, FALSE)
    /\ pc' = "agencies"
    /\ UNCHANGED << all, env, all_fr_agencies, loopVars, faults, hist0 >>

\* get_object raises: the object is absent, or the store fails; either way
\* the except branch returns {}
LoadRaised ==
    /\ pc = "load"
    /\ \/ ~indexObj.present /\ faults' = faults
       \/ indexObj.present /\ faults < MaxFaults /\ faults' = faults + 1
    /\ existing_abstracts' = EmptyDict
    /\ Logged("load", FALSE, indexObj.present)
    /\ pc' = "agencies"
    /\ UNCHANGED << all, env, all_fr_agencies, loopVars, hist0 >>

FetchAgencies ==
    /\ pc = "agencies"
    /\ all_fr_agencies' = SortAgencies(ApiAgencies)
    /\ kw' = 1
    /\ Logged("agencies", TRUE, FALSE)
    /\ pc' = "agency"
    /\ UNCHANGED << all, env, existing_abstracts, matched_agency,
                    next_page_url, page_number, results, di,
                    skip_to_next_agency, faults, hist0 >>

(***************************************************************************)
(* for agency_keyword in agencies_to_scrape (lines 120-147, 256-265).      *)
(***************************************************************************)
HasMatch(keyword) ==
    \E i \in DOMAIN all_fr_agencies :
        Lower(ShortNameOrName(all_fr_agencies[i])) = Lower(keyword)

\* the loop over the keywords is exhausted
AgenciesDone ==
    /\ pc = "agency"
    /\ kw > Len(agencies_to_scrape)
    /\ pc' = "save"
    /\ UNCHANGED << all, env, existing_abstracts, all_fr_agencies,
                    loopVars, faults, hist0, log >>

\* if not matched_agency: continue
AgencyUnmatched ==
    /\ pc = "agency"
    /\ kw <= Len(agencies_to_scrape)
    /\ ~HasMatch(agencies_to_scrape[kw])
    /\ kw' = kw + 1
    /\ Logged("nomatch", FALSE, FALSE)
    /\ UNCHANGED << all, pc, env, existing_abstracts, all_fr_agencies,
                    matched_agency, next_page_url, page_number, results, di,
                    skip_to_next_agency, faults, hist0 >>

AgencyMatched ==
    /\ pc = "agency"
    /\ kw <= Len(agencies_to_scrape)
    /\ HasMatch(agencies_to_scrape[kw])
    /\ matched_agency' = MatchAgency(all_fr_agencies, agencies_to_scrape[kw])
    /\ next_page_url' = matched_agency'.recent_articles_url
    /\ page_number' = 1
    /\ pc' = "page"
    /\ UNCHANGED << all, env, existing_abstracts, all_fr_agencies, kw,
                    results, di, skip_to_next_agency, faults, hist0, log >>

(***************************************************************************)
(* while next_page_url (lines 150-165, 248-254).                           *)
(***************************************************************************)
\* the keyword loop left as well: straight to the final save
LeaveAllAgencies ==
    /\ pc' = "save"
    /\ kw' = kw

\* the page loop ends: on to the next keyword
LeaveAgency ==
    /\ pc' = "agency"
    /\ kw' = kw + 1

\* next_page_url is None: the while loop ends
PagesDone ==
    /\ pc = "page"
    /\ ~Truthy(next_page_url)
    /\ LeaveAgency
    /\ UNCHANGED << all, env, existing_abstracts, all_fr_agencies,
                    matched_agency, next_page_url, page_number, results, di,
                    skip_to_next_agency, faults, hist0, log >>

\* response.status_code != 200: break
PageError ==
    /\ pc = "page"
    /\ Truthy(next_page_url)
    /\ next_page_url \in badUrls
    /\ Logged("page", FALSE, FALSE)
    /\ LeaveAgency
    /\ UNCHANGED << all, env, existing_abstracts, all_fr_agencies,
                    matched_agency, next_page_url, page_number, results, di,
                    skip_to_next_agency, faults, hist0 >>

PageFetched ==
    /\ pc = "page"
    /\ Truthy(next_page_url)
    /\ next_page_url \notin badUrls
    /\ Logged("page", TRUE, FALSE)
    /\ results' = PageData(next_page_url).results
    /\ next_page_url' = Get(PageData(next_page_url), "next_page_url", Null)
    /\ skip_to_next_agency' = FALSE
    /\ di' = 1
    /\ pc' = "doc"
    /\ UNCHANGED << all, env, existing_abstracts, all_fr_agencies, kw,
                    matched_agency, page_number, faults, hist0 >>

\* after the for loop: if skip_to_next_agency: break; page_number += 1
EndPage ==
    /\ pc = "pageend"
    /\ IF skip_to_next_agency
       THEN LeaveAgency /\ page_number' = page_number
       ELSE pc' = "page" /\ page_number' = page_number + 1 /\ kw' = kw
    /\ UNCHANGED << all, env, existing_abstracts, all_fr_agencies,
                    matched_agency, next_page_url, results, di,
                    skip_to_next_agency, faults, hist0, log >>

(***************************************************************************)
(* for result in data['results'] (lines 168-246).                          *)
(***************************************************************************)
result == results[di]
pdf_object_path == PathOf(short_name, result)

\* `continue`: on to the next document of the page
ContinueDoc ==
    /\ pc' = "doc"
    /\ di' = di + 1

\* the for loop is exhausted
DocsExhausted ==
    /\ pc = "doc"
    /\ di > Len(results)
    /\ pc' = "pageend"
    /\ UNCHANGED << all, env, existing_abstracts, all_fr_agencies,
                    loopVars, faults, hist0, log >>

\* the `continue` missing: the document without a PDF URL is handled like
\* one whose artifact is absent
NoPdfUrlNoContinue ==
    /\ pc = "doc"
    /\ di <= Len(results)
    /\ ~Truthy(Get(result, "pdf_url", Null))
    /\ Logged("nopdf", FALSE, FALSE)
    /\ pc' = "download"
    /\ UNCHANGED << all, env, existing_abstracts, all_fr_agencies,
                    loopVars, faults, hist0 >>

\* if not pdf_url: continue
NoPdfUrl ==
    /\ pc = "doc"
    /\ di <= Len(results)
    /\ ~Truthy(Get(result, "pdf_url", Null))
    /\ Logged("nopdf", FALSE, FALSE)
    /\ ContinueDoc
    /\ UNCHANGED << all, env, existing_abstracts, all_fr_agencies, kw,
                    matched_agency, next_page_url, page_number, results,
                    skip_to_next_agency, faults, hist0 >>

\* a stat_object that is asked for the key without the parent folder
StatWrongKey(path) ==
    SubSeq(path, Len(parent_folder) + 2, Len(path)) \in store

\* client.stat_object returns: the object is there
StatSucceeds(path) == path \in store

\* the test of the flag inverted
StopWhenAll == all

\* the flag ignored: an existing document always stops the agency
StopAlways == TRUE

\* if not args.all
StopOnExisting == ~all

\* the `break` missing: the flag is set, but the documents that follow on
\* the page are still handled
StatFoundNoBreak ==
    /\ pc = "doc"
    /\ di <= Len(results)
    /\ Truthy(Get(result, "pdf_url", Null))
    /\ StatSucceeds(pdf_object_path)
    /\ Logged("stat", TRUE, FALSE)
    /\ skip_to_next_agency' = (skip_to_next_agency \/ StopOnExisting)
    /\ ContinueDoc
    /\ UNCHANGED << all, env, existing_abstracts, all_fr_agencies, kw,
                    matched_agency, next_page_url, page_number, results,
                    faults, hist0 >>

\* stat_object returned: count the document as skipped, then either stop
\* the agency's pagination (break) or go on with the next document (continue)
StatFound ==
    /\ pc = "doc"
    /\ di <= Len(results)
    /\ Truthy(Get(result, "pdf_url", Null))
    /\ StatSucceeds(pdf_object_path)
    /\ Logged("stat", TRUE, FALSE)
    /\ IF StopOnExisting
       THEN skip_to_next_agency' = TRUE /\ pc' = "pageend" /\ di' = di
       ELSE skip_to_next_agency' = skip_to_next_agency /\ ContinueDoc
    /\ UNCHANGED << all, env, existing_abstracts, all_fr_agencies, kw,
                    matched_agency, next_page_url, page_number, results,
                    faults, hist0 >>

\* only the not-found error caught: an absent object goes on to download,
\* any other failure of stat_object leaves main() with the exception
StatRaisedNotFoundOnly ==
    /\ pc = "doc"
    /\ di <= Len(results)
    /\ Truthy(Get(result, "pdf_url", Null))
    /\ \/ ~StatSucceeds(pdf_object_path) /\ faults' = faults /\ pc' = "download"
       \/ StatSucceeds(pdf_object_path) /\ faults < MaxFaults /\ faults' = faults + 1
          /\ pc' = "aborted"
    /\ Logged("stat", FALSE, StatSucceeds(pdf_object_path))
    /\ UNCHANGED << all, env, existing_abstracts, all_fr_agencies,
                    loopVars, hist0 >>

\* stat_object raises, because the object is absent or because the store
\* fails: the except branch goes on to download
StatRaised ==
    /\ pc = "doc"
    /\ di <= Len(results)
    /\ Truthy(Get(result, "pdf_url", Null))
    /\ \/ ~StatSucceeds(pdf_object_path) /\ faults' = faults
       \/ StatSucceeds(pdf_object_path) /\ faults < MaxFaults /\ faults' = faults + 1
    /\ Logged("stat", FALSE, StatSucceeds(pdf_object_path))
    /\ pc' = "download"
    /\ UNCHANGED << all, env, existing_abstracts, all_fr_agencies,
                    loopVars, hist0 >>

\* the status test missing: the error response is uploaded as the PDF
FallThroughToUpload ==
    /\ pc' = "upload"
    /\ di' = di

\* the `continue` missing: a failed download falls through to the update
FallThroughToUpdate ==
    /\ pc' = "update"
    /\ di' = di

\* what follows pdf_response.status_code != 200: continue
AfterFailedDownload == ContinueDoc

DownloadFailed ==
    /\ pc = "download"
    /\ result.pdf_url \in badUrls
    /\ Logged("get", FALSE, FALSE)
    /\ AfterFailedDownload
    /\ UNCHANGED << all, env, existing_abstracts, all_fr_agencies, kw,
                    matched_agency, next_page_url, page_number, results,
                    skip_to_next_agency, faults, hist0 >>

DownloadOk ==
    /\ pc = "download"
    /\ result.pdf_url \notin badUrls
    /\ Logged("get", TRUE, FALSE)
    /\ pc' = "upload"
    /\ UNCHANGED << all, env, existing_abstracts, all_fr_agencies,
                    loopVars, faults, hist0 >>

\* client.put_object stores the PDF
UploadOk ==
    /\ pc = "upload"
    /\ store' = store \cup {pdf_object_path}
    /\ Logged("put", TRUE, FALSE)
    /\ pc' = "update"
    /\ UNCHANGED << all, indexObj, badUrls, existing_abstracts,
                    all_fr_agencies, loopVars, faults, hist0 >>

\* client.put_object raises inside the except branch: nothing catches it
\* and main() ends with the exception
UploadRaised ==
    /\ pc = "upload"
    /\ faults < MaxFaults
    /\ faults' = faults + 1
    /\ Logged("put", FALSE, TRUE)
    /\ pc' = "aborted"
    /\ UNCHANGED << all, env, existing_abstracts, all_fr_agencies,
                    loopVars, hist0 >>

\* the entry of document_number after the update of lines 236-246
MergedEntry(abstracts, res, name, path) ==
    DictUpdate(EntryOf(abstracts, res.document_number), NewEntry(res, name, path))

UpdateAbstract ==
    /\ pc = "update"
    /\ existing_abstracts' =
           DictSet(existing_abstracts, result.document_number,
                   MergedEntry(existing_abstracts, result, agency_name, pdf_object_path))
    /\ Logged("update", TRUE, FALSE)
    /\ ContinueDoc
    /\ UNCHANGED << all, env, all_fr_agencies, kw, matched_agency,
                    next_page_url, page_number, results, skip_to_next_agency,
                    faults, hist0 >>

(***************************************************************************)
(* Reading the history.                                                    *)
(***************************************************************************)
LastEv == log[Len(log)]

\* the positions in the log of this run's calls of one kind
Events(op) == { i \in DOMAIN log : log[i].op = op }

\* the agency a configured keyword resolves to, and its listing pages
KeywordMatches(k) ==
    \E i \in DOMAIN ApiAgencies :
        Lower(ShortNameOrName(ApiAgencies[i])) = Lower(agencies_to_scrape[k])
Listing ==
    [k \in { j \in DOMAIN agencies_to_scrape : KeywordMatches(j) } |->
        LET a == MatchAgency(SortAgencies(ApiAgencies), agencies_to_scrape[k])
        IN  [agency |-> a, chain |-> Chain(a.recent_articles_url)]]
AgencyOf(k) == Listing[k].agency
ChainOf(k) == Listing[k].chain
PathUnder(k, res) == PathOf(ShortNameOrName(AgencyOf(k)), res)

\* the listed document a logged call was made for, and its object path
DocAt(e) == PageData(ChainOf(e.kw)[e.page]).results[e.idx]
KeyTable ==
    [k \in DOMAIN Listing |->
        [p \in DOMAIN Listing[k].chain |->
            [i \in DOMAIN PageData(Listing[k].chain[p]).results |->
                PathUnder(k, PageData(Listing[k].chain[p]).results[i])]]]
KeyAt(e) == KeyTable[e.kw][e.page][e.idx]

\* every PDF this run asked for was served
AllServed == \A i \in Events("get") : log[i].ok

\* every existence check of this run that raised did so for an absent object
NoStatFault == \A i \in Events("stat") : ~log[i].fault

\* no object path, and no document number, was asked for twice in this run
PathsOnce ==
    \A i, j \in Events("get") : i # j => KeyAt(log[i]) # KeyAt(log[j])
DocsOnce ==
    \A i, j \in Events("get") :
        i # j => DocAt(log[i]).document_number # DocAt(log[j]).document_number

\* what the next run remembers of this one
Summary ==
    [all |-> all, outcome |-> pc, served |-> AllServed,
     truthful |-> NoStatFault, docsOnce |-> DocsOnce,
     got |-> { KeyAt(log[i]) : i \in Events("get") },
     put |-> { DocAt(log[i]).document_number :
                 i \in { j \in Events("put") : log[j].ok } }]

\* the calls that process a listing page or one of its documents
ProcOps == {"page", "nopdf", "stat", "get", "put", "update"}

(***************************************************************************)
(* save_abstracts_to_minio (line 265), the end of a run and the next run.  *)
(***************************************************************************)
SaveAbstracts ==
    /\ pc = "save"
    /\ indexObj' = [present |-> TRUE, data |-> existing_abstracts]
    /\ Logged("save", TRUE, FALSE)
    /\ pc' = "done"
    /\ UNCHANGED << all, store, badUrls, existing_abstracts,
                    all_fr_agencies, loopVars, faults, hist0 >>

\* the process is killed from outside. Its memory is lost and only the
\* objects already put remain, so the kill is taken right after an upload.
Kill ==
    /\ pc = "update"
    /\ faults < MaxFaults
    /\ faults' = faults + 1
    /\ Logged("kill", FALSE, TRUE)
    /\ pc' = "killed"
    /\ UNCHANGED << all, env, existing_abstracts, all_fr_agencies,
                    loopVars, hist0 >>

\* the job is started again with the same command line, against the same
\* catalog; any number of runs may follow one another
StartRun ==
    /\ pc \in {"done", "aborted", "killed"}
    /\ pc' = "load"
    /\ existing_abstracts' = EmptyDict
    /\ all_fr_agencies' = <<>>
    /\ kw' = 0
    /\ matched_agency' = NoAgency
    /\ next_page_url' = Null
    /\ page_number' = 0
    /\ results' = <<>>
    /\ di' = 0
    /\ skip_to_next_agency' = FALSE
    /\ index0' = indexObj
    /\ store0' = store
    /\ prev' = Summary
    /\ log' = <<>>
    /\ UNCHANGED << all, env, faults >>

Next ==
    \/ LoadExisting \/ LoadRaised \/ FetchAgencies
    \/ AgenciesDone \/ AgencyUnmatched \/ AgencyMatched
    \/ PagesDone \/ PageError \/ PageFetched \/ EndPage
    \/ DocsExhausted \/ NoPdfUrl \/ StatFound \/ StatRaised
    \/ DownloadFailed \/ DownloadOk \/ UploadOk \/ UploadRaised
    \/ UpdateAbstract \/ SaveAbstracts \/ Kill \/ StartRun

Spec == Init /\ [][Next]_vars

(***************************************************************************)
(* C1. Idempotence.                                                        *)
(***************************************************************************)
\* the previous run and this one ran in non-rescan mode with every existence
\* check answered truthfully, and the previous run completed fully
AfterFullRun ==
    /\ prev.outcome = "done" /\ prev.served /\ prev.truthful /\ ~prev.all
    /\ ~all /\ NoStatFault

\* C1 as stated: with both runs in non-rescan mode, the first run completed
\* fully and every existence check answered truthfully, the second run
\* downloads nothing and no document is downloaded twice over the two runs.
C1_EachDocumentOnce ==
    (pc = "done" /\ AfterFullRun)
    => /\ Events("get") = {}
       /\ prev.docsOnce

\* C1 amended: for two consecutive non-rescan runs whose existence checks
\* are answered truthfully, the first of which completed fully, the second
\* downloads nothing, and over the two runs each object path (a document
\* under one agency that lists it) is downloaded at most once.
C1_SecondRunIdle ==
    /\ (~all /\ NoStatFault /\ AllServed) => PathsOnce
    /\ AfterFullRun
       => /\ Events("get") = {}
          /\ \A i \in Events("get") : KeyAt(log[i]) \notin prev.got

\* C1 witness: a second non-rescan run has ended after a first one that
\* downloaded PDFs and completed fully, and it made existence checks.
C1_Witness ==
    /\ pc = "done" /\ AfterFullRun
    /\ prev.got # {}
    /\ Events("stat") # {}

(***************************************************************************)
(* C2. The saved index keeps the entries stored before the run.            *)
(***************************************************************************)
\* C2 as stated: when a run reaches the final save, every document number
\* of the index object stored before the run is in the index it writes,
\* whether or not the initial read succeeded.
C2_NoEntryLost ==
    (pc = "done" /\ index0.present)
    => DOMAIN index0.data \subseteq DOMAIN indexObj.data

(***************************************************************************)
(* C3. Non-rescan mode stops an agency at the first stored document.       *)
(***************************************************************************)
\* page p of keyword k lists a document whose artifact was in the store when
\* this run started and whose existence check was not hit by a store fault
StoredOnPage(k, p) ==
    \E res \in WithPdf(ChainOf(k)[p]) :
        /\ PathUnder(k, res) \in store0
        /\ \A i \in Events("stat") :
               KeyAt(log[i]) = PathUnder(k, res) => ~log[i].fault

\* C3: in non-rescan mode no page fetch, existence check, download, upload
\* or index update is made for a page that follows a page listing a stored
\* document; a run that ends has fetched the first page of every matched
\* keyword; and with FTC's page 1 listing two new documents and page 2 one
\* stored document, the run makes exactly 2 downloads and 2 index updates
\* for FTC and saves both entries.
C3_StopsAtStoredPage ==
    /\ (log # <<>> /\ ~all /\ LastEv.op \in ProcOps)
       => \A p \in 1..(LastEv.page - 1) : ~StoredOnPage(LastEv.kw, p)
    /\ pc = "done"
       => \A k \in DOMAIN agencies_to_scrape :
              KeywordMatches(k)
              => \E i \in Events("page") : log[i].kw = k /\ log[i].page = 1
    /\ (/\ pc = "done" /\ ~all /\ NoStatFault
        /\ store0 \cap { PathUnder(1, res) : res \in {D1, D2, D3} } = { PathUnder(1, D3) }
        /\ badUrls \cap { <<"ftc/p1">>, <<"ftc/p2">>, D1.pdf_url, D2.pdf_url } = {})
       => /\ Cardinality({ i \in Events("get") : log[i].kw = 1 }) = 2
          /\ { DocAt(log[i]) : i \in { j \in Events("update") : log[j].kw = 1 } }
                 = { D1, D2 }
          /\ Cardinality({ i \in Events("update") : log[i].kw = 1 }) = 2
          /\ { D1.document_number, D2.document_number } \subseteq DOMAIN indexObj.data
          /\ \E i \in Events("stat") :
                 log[i].kw = 1 /\ log[i].page = 2 /\ log[i].ok

\* C3 witness: a non-rescan run has ended in which FTC's page 2 held the
\* only stored FTC document, and the keyword after FTC was processed.
C3_Witness ==
    /\ pc = "done" /\ ~all /\ NoStatFault
    /\ store0 \cap { PathUnder(1, res) : res \in {D1, D2, D3} } = { PathUnder(1, D3) }
    /\ badUrls = {}
    /\ \E i \in Events("stat") : log[i].kw = 3

(***************************************************************************)
(* C4, C5. What happens to the index entry of a document found in store.   *)
(***************************************************************************)
\* the log holds a call op for the document at the position of event e
HasCall(op, e) ==
    \E j \in Events(op) :
        log[j].kw = e.kw /\ log[j].page = e.page /\ log[j].idx = e.idx

\* C4 as stated: a full-rescan run in which every request succeeds ends
\* with an index update made for every listed document that has a PDF URL,
\* whether or not its artifact was already stored.
C4_RescanRefreshesAll ==
    (all /\ pc = "done" /\ badUrls = {} /\ faults = 0)
    => \A k \in DOMAIN Listing : \A p \in DOMAIN ChainOf(k) :
           \A i \in DOMAIN PageData(ChainOf(k)[p]).results :
               Truthy(Get(PageData(ChainOf(k)[p]).results[i], "pdf_url", Null))
               => HasCall("update", [kw |-> k, page |-> p, idx |-> i])

\* C5 as stated: in non-rescan mode, when pagination is stopped because a
\* document was found in the store, the in-memory index holds that document
\* with the title, abstract, date, agency name and path of the listing.
C5_ExistingMerged ==
    (~all /\ pc = "pageend" /\ skip_to_next_agency)
    => /\ result.document_number \in DOMAIN existing_abstracts
       /\ \A f \in DOMAIN NewEntry(result, agency_name, pdf_object_path) :
              existing_abstracts[result.document_number][f]
                  = NewEntry(result, agency_name, pdf_object_path)[f]

(***************************************************************************)
(* C6. Full-rescan mode never stops at an existing artifact.               *)
(***************************************************************************)
\* page p of keyword k and the pages before it answer 200
Reachable(k, p) == \A q \in 1..p : ChainOf(k)[q] \notin badUrls

\* events e and f were logged for the same listed document
SameDoc(e, f) == e.kw = f.kw /\ e.page = f.page /\ e.idx = f.idx

\* C6: in full-rescan mode the stop flag is never set; when the run leaves
\* a keyword, every page of its agency up to the end of the chain or to the
\* first page that answered non-200 was fetched, and every document with a
\* PDF URL on the pages that answered 200 had its existence check; and a
\* download is requested next for a document exactly when its check raised.
C6_RescanKeepsPaging ==
    all =>
    /\ ~skip_to_next_agency
    /\ (pc = "agency" /\ kw - 1 \in DOMAIN Listing) =>
           \A p \in DOMAIN ChainOf(kw - 1) :
               /\ Reachable(kw - 1, p - 1)
                  => \E j \in Events("page") : log[j].kw = kw - 1 /\ log[j].page = p
               /\ Reachable(kw - 1, p)
                  => \A i \in DOMAIN PageData(ChainOf(kw - 1)[p]).results :
                         Truthy(Get(PageData(ChainOf(kw - 1)[p]).results[i], "pdf_url", Null))
                         => HasCall("stat", [kw |-> kw - 1, page |-> p, idx |-> i])
    /\ \A i \in DOMAIN log :
           /\ (log[i].op = "stat" /\ log[i].ok /\ i < Len(log))
              => log[i + 1].op # "get"
           /\ (log[i].op = "stat" /\ ~log[i].ok)
              => IF i = Len(log) THEN pc = "download"
                 ELSE log[i + 1].op = "get" /\ SameDoc(log[i], log[i + 1])
           /\ log[i].op = "get"
              => /\ i > 1
                 /\ log[i - 1].op = "stat" /\ ~log[i - 1].ok
                 /\ SameDoc(log[i - 1], log[i])

\* C6 witness: a full-rescan run has ended that found a stored document on
\* FTC's first page, went on to FTC's second page and downloaded a PDF.
C6_Witness ==
    /\ all /\ pc = "done"
    /\ \E i \in Events("stat") : log[i].kw = 1 /\ log[i].page = 1 /\ log[i].ok
    /\ \E j \in Events("page") : log[j].kw = 1 /\ log[j].page = 2 /\ log[j].ok
    /\ Events("get") # {}

(***************************************************************************)
(* C7. Entries written by a run point at stored artifacts.                 *)
(***************************************************************************)
\* C7: every document whose index entry this run has updated has an entry
\* whose pdf_path is an object of the store.
C7_UpdatedEntriesStored ==
    \A i \in Events("update") :
        /\ DocAt(log[i]).document_number \in DOMAIN existing_abstracts
        /\ existing_abstracts[DocAt(log[i]).document_number].pdf_path \in store

\* C7 witness: a run has ended that updated an index entry.
C7_Witness ==
    /\ pc = "done"
    /\ Events("update") # {}

(***************************************************************************)
(* C8. Errors and the final save.                                          *)
(***************************************************************************)
\* C8 as stated: no error of a run ends main() before the final save.
C8_NoErrorAborts == pc # "aborted"

(***************************************************************************)
(* C9. The run after a killed run.                                         *)
(***************************************************************************)
\* C9 as stated: when the run after a killed run has saved the index, the
\* index holds every document the killed run had uploaded.
C9_KilledUploadsIndexed ==
    (pc = "done" /\ prev.outcome = "killed")
    => prev.put \subseteq DOMAIN indexObj.data

(***************************************************************************)
(* C10. The merge of an index entry.                                       *)
(***************************************************************************)
\* a value that is neither null nor a missing-value placeholder
Populated(v) == v \notin { Null, Missing, Untitled, NoAbstract, UnknownDate }

\* the step is the update of the current document's index entry
UpdateStep == pc = "update" /\ pc' = "doc"

\* C10 as stated: an update of an existing entry keeps the fields the new
\* record does not carry, and leaves no populated field with an absent
\* value.
C10_NoPopulatedFieldLost ==
    [][UpdateStep /\ result.document_number \in DOMAIN existing_abstracts
       => LET old == existing_abstracts[result.document_number]
              new == existing_abstracts'[result.document_number]
              fresh == NewEntry(result, agency_name, pdf_object_path)
          IN  \A f \in DOMAIN old :
                  /\ f \in DOMAIN new
                  /\ f \notin DOMAIN fresh => new[f] = old[f]
                  /\ Populated(old[f]) => Populated(new[f])]_vars

\* C10 amended: an update of an existing entry is a field-wise override:
\* the entry keeps every old field, abstract, title, publication_date,
\* agency_name and pdf_path take the values of the fresh record (the
\* placeholder where the listing lacks the key, null where it carries null,
\* also over a populated old value), every other field keeps its old value,
\* and no other document's entry changes.
C10_FieldwiseOverride ==
    [][UpdateStep /\ result.document_number \in DOMAIN existing_abstracts
       => LET old == existing_abstracts[result.document_number]
              new == existing_abstracts'[result.document_number]
              fresh == NewEntry(result, agency_name, pdf_object_path)
          IN  /\ DOMAIN new = DOMAIN old \cup
                     {"abstract", "title", "publication_date", "agency_name", "pdf_path"}
              /\ new.abstract = Get(result, "abstract", NoAbstract)
              /\ new.title = Get(result, "title", Untitled)
              /\ new.publication_date = Get(result, "publication_date", UnknownDate)
              /\ new.agency_name = matched_agency.name
              /\ new.pdf_path = pdf_object_path
              /\ \A f \in DOMAIN old : f \notin DOMAIN fresh => new[f] = old[f]
              /\ DOMAIN existing_abstracts' = DOMAIN existing_abstracts
              /\ \A d \in DOMAIN existing_abstracts :
                     d # result.document_number
                     => existing_abstracts'[d] = existing_abstracts[d]]_vars

\* C10 witness: the entry of d3, loaded with an older title, a populated
\* abstract and a field the job does not write, has been updated.
C10_Witness ==
    /\ D3.document_number \in DOMAIN existing_abstracts
    /\ "note" \in DOMAIN existing_abstracts[D3.document_number]
    /\ existing_abstracts[D3.document_number].title = D3.title
    /\ existing_abstracts[D3.document_number].abstract = Null

(***************************************************************************)
(* C11. Artifacts already stored.                                          *)
(***************************************************************************)
\* the step is a put_object call for the current document's PDF
PutStep == pc = "upload" /\ pc' \in {"update", "aborted"}

\* the existence check that led to the download of the current document
CheckBeforePut == log[Len(log) - 1]

\* C11 as stated: no put is issued to a PDF object path that already holds
\* an artifact.
C11_NoPutOnExistingPath ==
    [][PutStep => pdf_object_path \notin store]_vars

\* C11 amended: a put is issued for a document only after the existence
\* check of that document raised and its download succeeded; the path
\* already holds an artifact only when that check raised because of a
\* storage failure, never when it raised because the object is absent.
C11_PutOnlyAfterRaisedCheck ==
    [][PutStep
       => /\ Len(log) >= 2
          /\ LastEv.op = "get" /\ LastEv.ok
          /\ CheckBeforePut.op = "stat" /\ ~CheckBeforePut.ok
          /\ SameDoc(CheckBeforePut, Ev("put", TRUE, FALSE))
          /\ pdf_object_path \in store <=> CheckBeforePut.fault]_vars

\* C11 witness: a PDF has been put at a path that held an artifact, after
\* its existence check failed.
C11_Witness ==
    /\ pc = "update"
    /\ LastEv.op = "put" /\ LastEv.ok
    /\ log[Len(log) - 2].op = "stat" /\ log[Len(log) - 2].fault
    /\ pdf_object_path \in store0

(***************************************************************************)
(* C12. An existence check that raises.                                    *)
(***************************************************************************)
\* the step logs an existence check that raised
CheckRaisedStep ==
    /\ pc = "doc"
    /\ Len(log') = Len(log) + 1
    /\ log'[Len(log')].op = "stat" /\ ~log'[Len(log')].ok

\* C12: when the existence check raises, for an absent object or for any
\* other failure, main() goes on to the download of the same document with
\* the stop flag, the store and the index untouched, and its next step is
\* the download request for that document.
C12_RaisedCheckDownloads ==
    [][/\ CheckRaisedStep
          => /\ pc' = "download"
             /\ UNCHANGED << kw, page_number, di, results, skip_to_next_agency,
                             store, existing_abstracts, indexObj >>
       /\ pc = "download"
          => /\ LastEv.op = "stat" /\ ~LastEv.ok
             /\ SameDoc(LastEv, Ev("get", TRUE, FALSE))
             /\ pc' \in {"upload", "doc"}
             /\ log'[Len(log')].op = "get"
             /\ SameDoc(LastEv, log'[Len(log')])
             /\ skip_to_next_agency' = skip_to_next_agency]_vars

\* C12 witness: the check of a stored document failed and the download of
\* that document was requested.
C12_Witness ==
    /\ Len(log) >= 2
    /\ LastEv.op = "get"
    /\ log[Len(log) - 1].op = "stat" /\ log[Len(log) - 1].fault

(***************************************************************************)
(* C13. A download that fails.                                             *)
(***************************************************************************)
\* the download request of the current document is answered non-200
FailedDownloadStep == pc = "download" /\ result.pdf_url \in badUrls

\* C13: a non-200 answer to the download leaves the store, the in-memory
\* index and the index object as they were, and main() goes on with the
\* next document of the same page.
C13_FailedDownloadSkipsDocument ==
    [][FailedDownloadStep
       => /\ UNCHANGED << store, existing_abstracts, indexObj >>
          /\ pc' = "doc"
          /\ di' = di + 1
          /\ UNCHANGED << kw, page_number, results, next_page_url,
                          skip_to_next_agency >>]_vars

\* C13 witness: the download of the first document of a page failed and
\* main() stands at the second document of that page.
C13_Witness ==
    /\ pc = "doc"
    /\ log # <<>> /\ LastEv.op = "get" /\ ~LastEv.ok
    /\ di = 2 /\ di <= Len(results)
    /\ result.document_number \notin DOMAIN existing_abstracts

(***************************************************************************)
(* C14. A listing page that answers non-200.                               *)
(***************************************************************************)
\* the request for the next listing page is answered non-200
FailedPageStep ==
    pc = "page" /\ Truthy(next_page_url) /\ next_page_url \in badUrls

\* C14: a non-200 page answer leaves the store and the index as they are
\* and moves main() to the next keyword; the call that follows a failed
\* page belongs to a later keyword; and the final save writes the in-memory
\* index, with every entry updated in the run, after the first page of every
\* matched keyword was requested.
C14_PageErrorEndsAgencyOnly ==
    [][/\ FailedPageStep
          => /\ pc' = "agency" /\ kw' = kw + 1
             /\ UNCHANGED << store, existing_abstracts, indexObj >>
             /\ log'[Len(log')].op = "page" /\ ~log'[Len(log')].ok
       /\ (log # <<>> /\ LastEv.op = "page" /\ ~LastEv.ok /\ Len(log') > Len(log))
          => log'[Len(log')].kw > LastEv.kw
       /\ (pc = "save" /\ pc' = "done")
          => /\ indexObj'.present /\ indexObj'.data = existing_abstracts
             /\ store0 \subseteq store'
             /\ \A i \in Events("update") :
                    DocAt(log[i]).document_number \in DOMAIN indexObj'.data
             /\ \A i \in Events("put") : log[i].ok => KeyAt(log[i]) \in store'
             /\ \A k \in DOMAIN Listing :
                    \E i \in Events("page") : log[i].kw = k /\ log[i].page = 1]_vars

\* C14 witness: a run has ended in which FTC's second page answered non-200
\* after documents of its first page were indexed, and EPA was processed.
C14_Witness ==
    /\ pc = "done"
    /\ \E i \in Events("page") : log[i].kw = 1 /\ log[i].page = 2 /\ ~log[i].ok
    /\ \E i \in Events("update") : log[i].kw = 1
    /\ \E i \in Events("update") : log[i].kw = 3

(***************************************************************************)
(* C15. A document record without a PDF URL.                               *)
(***************************************************************************)
\* main() stands at a listed document whose pdf_url is absent, null or empty
NoPdfStep ==
    /\ pc = "doc" /\ di \in DOMAIN results
    /\ results[di].pdf_url \in { Null, Missing, <<>> }

\* C15: in both modes a document without a PDF URL leaves the store, the
\* index and the stop flag as they are, makes no existence check and no
\* download, and main() goes on with the next document of the page.
C15_NoPdfNoEffect ==
    [][NoPdfStep
       => /\ UNCHANGED << store, existing_abstracts, indexObj,
                          skip_to_next_agency >>
          /\ pc' = "doc" /\ di' = di + 1
          /\ UNCHANGED << kw, page_number, results, next_page_url >>
          /\ log'[Len(log')].op = "nopdf"]_vars

\* C15 witness: main() has passed a document without a PDF URL and stands
\* at the document that follows it on the page.
C15_Witness ==
    /\ pc = "doc" /\ di \in DOMAIN results
    /\ log # <<>> /\ LastEv.op = "nopdf"
    /\ D4.document_number \notin DOMAIN existing_abstracts

(***************************************************************************)
(* C16. The index object is read once and written once.                    *)
(***************************************************************************)
\* C16 as stated: every run reads the index object exactly once, before
\* any catalog request, leaves it alone until the end, and when main() has
\* ended, has written it exactly once, after the last upload, with the
\* in-memory index.
C16_IndexReadOnceWrittenOnce ==
    /\ log # <<>>
       => /\ log[1].op = "load"
          /\ Cardinality(Events("load")) = 1
    /\ pc \notin {"done", "load"} => indexObj = index0 /\ Events("save") = {}
    /\ pc \in {"done", "aborted"}
       => /\ Cardinality(Events("save")) = 1
          /\ LastEv.op = "save"
          /\ indexObj = [present |-> TRUE, data |-> existing_abstracts]

(***************************************************************************)
(* C17. Resolving the configured keywords.                                 *)
(***************************************************************************)
\* a is the agency the API lists whose key equals the keyword, ignoring
\* case, and that comes first when the list is sorted by key (the API's
\* order deciding between equal keys)
FirstSortedMatch(a, keyword) ==
    \E i \in DOMAIN ApiAgencies :
        /\ a = ApiAgencies[i]
        /\ Lower(ShortNameOrName(a)) = Lower(keyword)
        /\ \A j \in DOMAIN ApiAgencies \ {i} :
               Lower(ShortNameOrName(ApiAgencies[j])) = Lower(keyword)
               => \/ StrLess(ShortNameOrName(a), ShortNameOrName(ApiAgencies[j]))
                  \/ /\ ShortNameOrName(a) = ShortNameOrName(ApiAgencies[j])
                     /\ i < j

\* C17: a keyword that matches no agency is logged and passed over with the
\* store and the index untouched; a keyword that matches selects the first
\* match of the sorted agency list and starts at its listing; the keywords
\* are taken one by one in the configured order, and the final save is
\* reached only after the last of them.
C17_KeywordResolution ==
    [][/\ (pc = "agency" /\ kw \in DOMAIN agencies_to_scrape /\ ~KeywordMatches(kw))
          => /\ pc' = "agency" /\ kw' = kw + 1
             /\ UNCHANGED << store, existing_abstracts, indexObj >>
             /\ log'[Len(log')].op = "nomatch"
       /\ (pc = "agency" /\ kw \in DOMAIN agencies_to_scrape /\ KeywordMatches(kw))
          => /\ pc' = "page" /\ kw' = kw
             /\ FirstSortedMatch(matched_agency', agencies_to_scrape[kw])
             /\ next_page_url' = matched_agency'.recent_articles_url
       /\ pc' # "load" => kw' \in {kw, kw + 1}
       /\ pc' = "save" => kw' = Len(agencies_to_scrape) + 1]_vars

\* C17 witness: a run has ended that passed over the unmatched second
\* keyword and fetched listing pages for the first and the third.
C17_Witness ==
    /\ pc = "done"
    /\ \E i \in Events("nomatch") : log[i].kw = 2
    /\ \A i \in DOMAIN log : log[i].kw = 2 => log[i].op = "nomatch"
    /\ \E i \in Events("page") : log[i].kw = 1 /\ log[i].ok
    /\ \E i \in Events("page") : log[i].kw = 3 /\ log[i].ok
    /\ matched_agency.short_name = <<"E","P","A">>

(***************************************************************************)
(* C18. The object path of a document.  PathSpec takes main() at one       *)
(* listed document whose number and title are drawn from bounded sets,     *)
(* under each agency of the list, through check, download, upload and      *)
(* index update.                                                           *)
(***************************************************************************)
\* a title of n characters that ends in "z" and starts with c
TitleOfLen(n, c) ==
    [i \in 1..n |-> IF i = n THEN "z" ELSE IF i = 1 THEN c ELSE "x"]

PathTitles ==
    {Missing} \cup { TitleOfLen(n, c) : n \in 0..MaxTitleLen, c \in {"x", "/"} }

PathDocNumbers == { <<"d","1">>, <<"a","/","b">> }

PathInit ==
    /\ all \in BOOLEAN
    /\ pc = "doc"
    /\ store = {}
    /\ indexObj = [present |-> FALSE, data |-> EmptyDict]
    /\ badUrls = {}
    /\ existing_abstracts = EmptyDict
    /\ all_fr_agencies = SortAgencies(ApiAgencies)
    /\ kw = 1
    /\ matched_agency \in { ApiAgencies[i] : i \in DOMAIN ApiAgencies }
    /\ next_page_url = Null
    /\ page_number = 1
    /\ results \in { <<Doc(dn, t, <<"pdf/d1">>, a, Missing)>> :
                        dn \in PathDocNumbers, t \in PathTitles,
                        a \in {Null, <<"abs1">>} }
    /\ di = 1
    /\ skip_to_next_agency = FALSE
    /\ faults = MaxFaults
    /\ prev = NoPrev
    /\ index0 = indexObj
    /\ store0 = store
    /\ log = <<>>

PathNext == StatRaised \/ DownloadOk \/ UploadOk \/ UpdateAbstract

PathSpec == PathInit /\ [][PathNext]_vars

\* C18: the path at which the PDF is stored, and which the index entry
\* records, is made of the parent folder, the agency's short name (its name
\* when it has none) and the file name "<number> - <title>.pdf" with every
\* "/" of the file name replaced by "_", where a title of at most 30
\* characters stands whole and a longer one is cut to its first 30
\* characters followed by "..."; nothing else of the record or the run
\* enters it.
C18_PathOfNumberTitleAgency ==
    LET doc == results[1]
        t == IF doc.title = Missing THEN <<"Untitled">> ELSE doc.title
        short == IF matched_agency.short_name \in {Null, <<>>}
                 THEN matched_agency.name ELSE matched_agency.short_name
        cut == IF Len(t) <= 30 THEN t
               ELSE [i \in 1..33 |-> IF i <= 30 THEN t[i] ELSE "."]
        raw == doc.document_number \o <<" ", "-", " ">> \o cut
               \o <<".", "p", "d", "f">>
        file == [i \in DOMAIN raw |-> IF raw[i] = "/" THEN "_" ELSE raw[i]]
        expected == <<"f", "r", "/">> \o short \o <<"/">> \o file
    IN  /\ pc = "update" => store = {expected}
        /\ di = 2 => /\ store = {expected}
                     /\ existing_abstracts[doc.document_number].pdf_path = expected

\* C18 witness: the PDF of a document whose title has more than 30
\* characters and holds a "/" has been stored.
C18_Witness ==
    /\ pc = "update"
    /\ results[1].title # Missing
    /\ Len(results[1].title) > 30
    /\ results[1].title[1] = "/"

(***************************************************************************)
(* C19. The documents that follow a stored document on its page.           *)
(***************************************************************************)
\* C19: in non-rescan mode the step that finds a document in the store
\* leaves the document loop with the stop flag set, and the call logged
\* next belongs to a later keyword (or is the final save): nothing is
\* checked, downloaded, stored or indexed for the rest of the page.
C19_RestOfPageNotExamined ==
    [][/\ (~all /\ pc = "doc" /\ Len(log') > Len(log)
           /\ log'[Len(log')].op = "stat" /\ log'[Len(log')].ok)
          => /\ pc' = "pageend" /\ skip_to_next_agency'
             /\ UNCHANGED << store, existing_abstracts >>
       /\ (~all /\ log # <<>> /\ LastEv.op = "stat" /\ LastEv.ok
           /\ Len(log') > Len(log))
          => /\ log'[Len(log')].kw > LastEv.kw
             /\ log'[Len(log')].op \notin {"stat", "get", "put", "update"}
             /\ UNCHANGED << store, existing_abstracts >>]_vars

\* C19 witness: a non-rescan run has ended that found FTC's first document
\* in the store and made no call for the second document of that page,
\* whose artifact is absent.
C19_Witness ==
    /\ pc = "done" /\ ~all
    /\ \E i \in Events("stat") :
           log[i].kw = 1 /\ log[i].page = 1 /\ log[i].idx = 1 /\ log[i].ok
    /\ \A i \in DOMAIN log : ~(log[i].kw = 1 /\ log[i].idx = 2)
    /\ PathUnder(1, D2) \notin store

(***************************************************************************)
(* C20. A document listed under two matched agencies.                      *)
(***************************************************************************)
\* this run checked D2 under the keyword k, found it absent, and D2's PDF
\* is served
CheckedAbsent(k) ==
    /\ PathUnder(k, D2) \notin store0
    /\ \E i \in Events("stat") : log[i].kw = k /\ DocAt(log[i]) = D2
    /\ D2.pdf_url \notin badUrls

\* C20: when a run that ends has checked D2 under FTC and under EPA, with
\* its artifact absent under both, D2 was downloaded twice and is stored at
\* two distinct paths, and the saved index holds for its document number
\* the one entry that names EPA, the agency processed last, and EPA's path.
C20_LastAgencyWins ==
    (pc = "done" /\ CheckedAbsent(1) /\ CheckedAbsent(3))
    => /\ Cardinality({ i \in Events("get") : DocAt(log[i]) = D2 /\ log[i].ok }) = 2
       /\ Cardinality({ i \in Events("put") : DocAt(log[i]) = D2 /\ log[i].ok }) = 2
       /\ PathUnder(1, D2) # PathUnder(3, D2)
       /\ { PathUnder(1, D2), PathUnder(3, D2) } \subseteq store
       /\ D2.document_number \in DOMAIN indexObj.data
       /\ indexObj.data[D2.document_number].agency_name = AgencyOf(3).name
       /\ indexObj.data[D2.document_number].pdf_path = PathUnder(3, D2)
       /\ indexObj.data[D2.document_number].pdf_path # PathUnder(1, D2)

\* C20 witness: a run has ended that downloaded D2 under FTC and under EPA.
C20_Witness ==
    /\ pc = "done" /\ CheckedAbsent(1) /\ CheckedAbsent(3)
    /\ \E i \in Events("update") : log[i].kw = 1 /\ DocAt(log[i]) = D2
    /\ \E i \in Events("update") : log[i].kw = 3 /\ DocAt(log[i]) = D2

====
